---- MODULE Spec2Model ----
(***************************************************************************)
(* Meteocat MCP server: the API client (src/src/meteocat_client.py) and    *)
(* the tool dispatcher (src/src/server.py) as a state machine.             *)
(*                                                                         *)
(* Python values are modelled as follows.                                  *)
(*   Optional[str]   None is <<>>, the string s is <<s>>                   *)
(*   str             a TLA+ string                                         *)
(*   int             an integer                                            *)
(*   JSON text       a sequence of lexical tokens [k, s]                   *)
(*   parsed JSON     a tagged record [t, v]                                *)
(***************************************************************************)
EXTENDS Integers, Sequences, FiniteSets, TLC

VARIABLES
    api_key,     \* server.py:11   os.environ.get("METEOCAT_API_KEY")
    client,      \* server.py:19   the module-level MeteocatClient, or None
    booted,      \* the module body (or the constructor call) has run
    ctor_raised, \* the exception the constructor raised, or None
    stderr,      \* lines printed to stderr at startup
    pc,          \* per invocation: position of the coroutine
    call,        \* per invocation: the operation and its arguments
    url,         \* per invocation: the URL handed to _request
    transport,   \* per invocation: the httpx.AsyncClient it opened (0: none)
    response,    \* per invocation: the upstream response it received
    pending,     \* per invocation: what _request returns or raises
    outcome,     \* per invocation: what the caller of the invocation gets
    gets,        \* per invocation: number of HTTP GETs it issued
    wire,        \* requests in flight
    open         \* httpx.AsyncClient objects currently open

vars == <<api_key, client, booted, ctor_raised, stderr, pc, call, url,
          transport, response, pending, outcome, gets, wire, open>>

-----------------------------------------------------------------------------
(* Bounds of the model *)

MaxInv == 2
MaxMonth == 13
MaxDay == 32

Slots == 1..MaxInv

-----------------------------------------------------------------------------
(* Python values *)

None == <<>>
Some(s) == <<s>>

\* Python truthiness of an Optional[str]: None and "" are falsy.
Truthy(o) == o # None /\ o[1] # ""

XEMA_BASE_URL == "https://api.meteo.cat/xema/v1"
PRONOSTIC_BASE_URL == "https://api.meteo.cat/pronostic/v1"
REFERENCIA_BASE_URL == "https://api.meteo.cat/referencia/v1"

HTTP_OK == 200

DigitChar == <<"0", "1", "2", "3", "4", "5", "6", "7", "8", "9">>

RECURSIVE NatDigits(_)
NatDigits(n) ==
    IF n < 10 THEN DigitChar[n + 1]
    ELSE NatDigits(n \div 10) \o DigitChar[(n % 10) + 1]

\* str(n) / f"{n}" of a Python int
IntToStr(n) == IF n < 0 THEN "-" \o NatDigits(0 - n) ELSE NatDigits(n)

RECURSIVE Zeros(_)
Zeros(k) == IF k <= 0 THEN "" ELSE "0" \o Zeros(k - 1)

\* mutant: f"{n}", no padding
Format02dUnpadded(n) == IntToStr(n)

\* f"{n:02d}": sign, then zeros up to a total width of two, then the digits
Format02d(n) ==
    LET sign == IF n < 0 THEN "-" ELSE ""
        digits == NatDigits(IF n < 0 THEN 0 - n ELSE n)
    IN sign \o Zeros(2 - Len(sign) - Len(digits)) \o digits

-----------------------------------------------------------------------------
(* meteocat_client.py: the constructor and the URL of each operation *)

Headers(key) == ("x-api-key" :> key) @@ ("Accept" :> "application/json")

\* mutant: "if api_key is None", an empty credential is accepted
MeteocatClientNoneOnly(key) ==
    IF key = None
    THEN [raised |-> Some("ValueError: METEOCAT_API_KEY is required"), obj |-> None]
    ELSE [raised |-> None,
          obj |-> Some([api_key |-> key[1], headers |-> Headers(key[1])])]

MeteocatClient(key) ==
    IF ~Truthy(key)
    THEN [raised |-> Some("ValueError: METEOCAT_API_KEY is required"), obj |-> None]
    ELSE [raised |-> None,
          obj |-> Some([api_key |-> key[1], headers |-> Headers(key[1])])]

MunicipalitiesUrl == REFERENCIA_BASE_URL \o "/municipis"
RegionsUrl == REFERENCIA_BASE_URL \o "/comarques"
WeatherSymbolsUrl == REFERENCIA_BASE_URL \o "/simbols"

RECURSIVE JoinAmp(_)
JoinAmp(params) ==
    IF params = <<>> THEN ""
    ELSE IF Len(params) = 1 THEN params[1]
    ELSE params[1] \o "&" \o JoinAmp(Tail(params))

\* mutant: "elif date", the date is dropped when a state is given
AllStationsUrlElif(state, date) ==
    LET base == XEMA_BASE_URL \o "/estacions/metadades"
        params == IF Truthy(state) THEN <<"estat=" \o state[1]>>
                  ELSE IF Truthy(date) THEN <<"data=" \o date[1]>>
                  ELSE <<>>
    IN IF params # <<>> THEN base \o "?" \o JoinAmp(params) ELSE base

AllStationsUrl(state, date) ==
    LET base == XEMA_BASE_URL \o "/estacions/metadades"
        p1 == IF Truthy(state) THEN <<"estat=" \o state[1]>> ELSE <<>>
        params == IF Truthy(date) THEN Append(p1, "data=" \o date[1]) ELSE p1
    IN IF params # <<>> THEN base \o "?" \o JoinAmp(params) ELSE base

StationUrl(station_code) ==
    XEMA_BASE_URL \o "/estacions/" \o station_code \o "/metadades"

StationVariablesUrl(station_code, state) ==
    LET base == XEMA_BASE_URL \o "/estacions/" \o station_code
                    \o "/variables/metadades"
    IN IF Truthy(state) THEN base \o "?estat=" \o state[1] ELSE base

AllVariablesUrl == XEMA_BASE_URL \o "/variables/metadades"

LatestReadingsUrl(variable_code, station_code) ==
    LET base == XEMA_BASE_URL \o "/variables/mesurades/"
                    \o IntToStr(variable_code) \o "/ultimes"
    IN IF Truthy(station_code)
       THEN base \o "?codiEstacio=" \o station_code[1] ELSE base

ReadingsUrl(variable_code, year, month, day, station_code) ==
    LET month_str == Format02d(month)
        day_str == Format02d(day)
        base == XEMA_BASE_URL \o "/variables/mesurades/"
                    \o IntToStr(variable_code) \o "/" \o IntToStr(year)
                    \o "/" \o month_str \o "/" \o day_str
    IN IF Truthy(station_code)
       THEN base \o "?codiEstacio=" \o station_code[1] ELSE base

MunicipalForecast72hUrl(municipality_code) ==
    PRONOSTIC_BASE_URL \o "/municipalHoraria/" \o municipality_code

MunicipalForecast8daysUrl(municipality_code) ==
    PRONOSTIC_BASE_URL \o "/municipal/" \o municipality_code

GeneralForecastUrl(year, month, day) ==
    LET month_str == Format02d(month)
        day_str == Format02d(day)
    IN PRONOSTIC_BASE_URL \o "/catalunya/" \o IntToStr(year)
           \o "/" \o month_str \o "/" \o day_str

RegionalForecastUrl(year, month, day) ==
    LET month_str == Format02d(month)
        day_str == Format02d(day)
    IN PRONOSTIC_BASE_URL \o "/comarcal/" \o IntToStr(year)
           \o "/" \o month_str \o "/" \o day_str

UviForecastUrl(municipality_code) ==
    PRONOSTIC_BASE_URL \o "/uvi/" \o municipality_code

-----------------------------------------------------------------------------
(* JSON: response.text, response.json() and str() of the parsed value *)

Punct(s) == [k |-> "punct", s |-> s]
Num(s) == [k |-> "num", s |-> s]
Str(s) == [k |-> "str", s |-> s]
Lit(s) == [k |-> "lit", s |-> s]
Junk(s) == [k |-> "junk", s |-> s]

PyInt(s) == [t |-> "int", v |-> s]
PyStr(s) == [t |-> "str", v |-> s]
PyTrue == [t |-> "bool", v |-> "True"]
PyFalse == [t |-> "bool", v |-> "False"]
PyNone == [t |-> "NoneType", v |-> "None"]
PyList(items) == [t |-> "list", v |-> items]
PyDict(items) == [t |-> "dict", v |-> items]

\* response.text: the body as received
Lexeme(tok) == IF tok.k = "str" THEN "\"" \o tok.s \o "\"" ELSE tok.s

RECURSIVE ResponseText(_)
ResponseText(body) ==
    IF body = <<>> THEN "" ELSE Lexeme(Head(body)) \o ResponseText(Tail(body))

ParseFail == [ok |-> FALSE, val |-> PyNone, rest |-> <<>>]
ParseOk(val, rest) == [ok |-> TRUE, val |-> val, rest |-> rest]

\* mutant: a new key goes to the front
DictPutFront(items, key, val) ==
    IF \E n \in 1..Len(items) : items[n][1] = key
    THEN [n \in 1..Len(items) |->
             IF items[n][1] = key THEN <<key, val>> ELSE items[n]]
    ELSE <<<<key, val>>>> \o items

\* d[key] = val on a dict that keeps insertion order
RECURSIVE DictPut(_, _, _)
DictPut(items, key, val) ==
    IF items = <<>> THEN <<<<key, val>>>>
    ELSE IF Head(items)[1] = key THEN <<<<key, val>>>> \o Tail(items)
    ELSE <<Head(items)>> \o DictPut(Tail(items), key, val)

IsPunct(toks, s) == toks # <<>> /\ Head(toks) = Punct(s)

RECURSIVE ParseValue(_), ParseArray(_, _, _), ParseObject(_, _, _)
ParseValue(toks) ==
    IF toks = <<>> THEN ParseFail
    ELSE LET h == Head(toks) IN
         CASE h.k = "num" -> ParseOk(PyInt(h.s), Tail(toks))
           [] h.k = "str" -> ParseOk(PyStr(h.s), Tail(toks))
           [] h = Lit("true") -> ParseOk(PyTrue, Tail(toks))
           [] h = Lit("false") -> ParseOk(PyFalse, Tail(toks))
           [] h = Lit("null") -> ParseOk(PyNone, Tail(toks))
           [] h = Punct("[") -> ParseArray(Tail(toks), <<>>, TRUE)
           [] h = Punct("{") -> ParseObject(Tail(toks), <<>>, TRUE)
           [] OTHER -> ParseFail

\* after "[" (first) or after a "," inside an array
ParseArray(toks, acc, first) ==
    IF first /\ IsPunct(toks, "]") THEN ParseOk(PyList(acc), Tail(toks))
    ELSE LET e == ParseValue(toks) IN
         IF ~e.ok THEN ParseFail
         ELSE IF IsPunct(e.rest, ",")
              THEN ParseArray(Tail(e.rest), Append(acc, e.val), FALSE)
         ELSE IF IsPunct(e.rest, "]")
              THEN ParseOk(PyList(Append(acc, e.val)), Tail(e.rest))
         ELSE ParseFail

\* after "{" (first) or after a "," inside an object
ParseObject(toks, acc, first) ==
    IF first /\ IsPunct(toks, "}") THEN ParseOk(PyDict(acc), Tail(toks))
    ELSE IF toks = <<>> \/ Head(toks).k # "str" \/ ~IsPunct(Tail(toks), ":")
         THEN ParseFail
    ELSE LET key == Head(toks).s
             e == ParseValue(Tail(Tail(toks)))
         IN IF ~e.ok THEN ParseFail
            ELSE IF IsPunct(e.rest, ",")
                 THEN ParseObject(Tail(e.rest), DictPut(acc, key, e.val), FALSE)
            ELSE IF IsPunct(e.rest, "}")
                 THEN ParseOk(PyDict(DictPut(acc, key, e.val)), Tail(e.rest))
            ELSE ParseFail

\* response.json(): one JSON value and nothing after it, else JSONDecodeError
ResponseJson(body) ==
    LET r == ParseValue(body) IN
    IF r.ok /\ r.rest = <<>> THEN [ok |-> TRUE, val |-> r.val]
    ELSE [ok |-> FALSE, val |-> PyNone]

RECURSIVE PyRepr(_), ReprItems(_), ReprPairs(_)
PyRepr(x) ==
    CASE x.t = "str" -> "'" \o x.v \o "'"
      [] x.t = "list" -> "[" \o ReprItems(x.v) \o "]"
      [] x.t = "dict" -> "{" \o ReprPairs(x.v) \o "}"
      [] OTHER -> x.v

ReprItems(items) ==
    IF items = <<>> THEN ""
    ELSE IF Len(items) = 1 THEN PyRepr(items[1])
    ELSE PyRepr(items[1]) \o ", " \o ReprItems(Tail(items))

ReprPairs(items) ==
    IF items = <<>> THEN ""
    ELSE LET one == "'" \o items[1][1] \o "': " \o PyRepr(items[1][2]) IN
         IF Len(items) = 1 THEN one ELSE one \o ", " \o ReprPairs(Tail(items))

\* str(result): a str is returned as it is, anything else through its repr
PyStrOf(x) == IF x.t = "str" THEN x.v ELSE PyRepr(x)

-----------------------------------------------------------------------------
(* _request and the tool wrappers *)

NoErr == [type |-> "", msg |-> ""]
NoPending == [kind |-> "none", val |-> PyNone, err |-> NoErr]
Returns(val) == [kind |-> "value", val |-> val, err |-> NoErr]
Raises(type, msg) == [kind |-> "raise", val |-> PyNone,
                      err |-> [type |-> type, msg |-> msg]]

NoOutcome == [kind |-> "none", text |-> "", val |-> PyNone, err |-> NoErr]
TextResult(text) == [kind |-> "text", text |-> text, val |-> PyNone, err |-> NoErr]
ValueResult(val) == [kind |-> "value", text |-> "", val |-> val, err |-> NoErr]
ErrorResult(err) == [kind |-> "error", text |-> "", val |-> PyNone, err |-> err]

NoResponse == [status |-> 0, body |-> <<>>]

ConfigError == "Error: Server not configured (missing API key)"

\* mutant: every 2xx status counts as success
RequestResultAny2xx(resp) ==
    IF resp.status \notin 200..299
    THEN Raises("Exception",
                "Meteocat API error (" \o IntToStr(resp.status) \o "): "
                    \o ResponseText(resp.body))
    ELSE LET j == ResponseJson(resp.body) IN
         IF j.ok THEN Returns(j.val) ELSE Raises("JSONDecodeError", "")

\* meteocat_client.py:24-28: what _request does with a response
RequestResult(resp) ==
    IF resp.status # HTTP_OK
    THEN Raises("Exception",
                "Meteocat API error (" \o IntToStr(resp.status) \o "): "
                    \o ResponseText(resp.body))
    ELSE LET j == ResponseJson(resp.body) IN
         IF j.ok THEN Returns(j.val) ELSE Raises("JSONDecodeError", "")

\* httpx raises out of client.get: no response at all
NetworkFailure == Raises("RequestError", "")

\* mutant: the tool catches the exception and returns it as text
ToolResultCaught(p) ==
    IF p.kind = "value" THEN TextResult(PyStrOf(p.val))
    ELSE TextResult("Error: " \o p.err.msg)

\* a tool's last two lines: result = await client.op(...); return str(result)
ToolResult(p) ==
    IF p.kind = "value" THEN TextResult(PyStrOf(p.val)) ELSE ErrorResult(p.err)

\* a client method called directly: its value, or its exception
MethodResult(p) ==
    IF p.kind = "value" THEN ValueResult(p.val) ELSE ErrorResult(p.err)

NoCall == [op |-> "none", state |-> None, date |-> None, station |-> "",
           station_opt |-> None, variable_code |-> 0, year |-> 0, month |-> 0,
           day |-> 0, municipality_code |-> ""]

\* the client method each tool calls, with the arguments in the order the
\* tool passes them
ToolUrl(c) ==
    CASE c.op = "get_municipalities" -> MunicipalitiesUrl
      [] c.op = "get_regions" -> RegionsUrl
      [] c.op = "get_weather_symbols" -> WeatherSymbolsUrl
      [] c.op = "get_all_stations" -> AllStationsUrl(c.state, c.date)
      [] c.op = "get_station" -> StationUrl(c.station)
      [] c.op = "get_all_variables" -> AllVariablesUrl
      [] c.op = "get_station_variables" ->
            StationVariablesUrl(c.station, c.state)
      [] c.op = "get_latest_readings" ->
            LatestReadingsUrl(c.variable_code, c.station_opt)
      [] c.op = "get_readings" ->
            ReadingsUrl(c.variable_code, c.year, c.month, c.day, c.station_opt)
      [] c.op = "get_municipal_forecast_72h" ->
            MunicipalForecast72hUrl(c.municipality_code)
      [] c.op = "get_municipal_forecast_8days" ->
            MunicipalForecast8daysUrl(c.municipality_code)
      [] c.op = "get_general_forecast" ->
            GeneralForecastUrl(c.year, c.month, c.day)
      [] c.op = "get_regional_forecast" ->
            RegionalForecastUrl(c.year, c.month, c.day)
      [] c.op = "get_uvi_forecast" -> UviForecastUrl(c.municipality_code)

\* httpx.AsyncClient(): a new object, distinct from every one still open
NewTransport == CHOOSE t \in 1..(Cardinality(open) + 1) :
                    t \notin open /\ \A u \in 1..(t - 1) : u \in open

\* the headers _request passes to client.get
RequestHeaders == client[1].headers

\* mutant: the url is kept on the shared client object, where the
\* invocation that built one last overwrites it
RequestUrlShared(i) == url[CHOOSE j \in Slots : pc[j] = "opened"]

\* the url _request passes to client.get: its own parameter
RequestUrl(i) == url[i]

\* mutant: the tool goes on without the check
NotConfiguredSkipped == FALSE

\* "if not client:", the first line of every tool
NotConfigured == client = None

-----------------------------------------------------------------------------
(* Inputs *)

Ops == {"get_municipalities", "get_regions", "get_weather_symbols",
        "get_all_stations", "get_station", "get_all_variables",
        "get_station_variables", "get_latest_readings", "get_readings",
        "get_municipal_forecast_72h", "get_municipal_forecast_8days",
        "get_general_forecast", "get_regional_forecast", "get_uvi_forecast"}

NoArgOps == {"get_municipalities", "get_regions", "get_weather_symbols",
             "get_all_variables"}
MunicipalityOps == {"get_municipal_forecast_72h",
                    "get_municipal_forecast_8days", "get_uvi_forecast"}
DateOps == {"get_general_forecast", "get_regional_forecast"}

Credentials == {None, Some(""), Some("KEY_A"), Some("KEY_B")}

OptStates == {None, Some(""), Some("ope")}
OptDates == {None, Some(""), Some("2024-03-07Z")}
OptStations == {None, Some(""), Some("UG")}
Months == {-1, 100} \cup 0..MaxMonth
Days == {-1, 100} \cup 0..MaxDay

CallsWith(months, days) ==
    {[NoCall EXCEPT !.op = o] : o \in NoArgOps}
    \cup {[NoCall EXCEPT !.op = "get_all_stations", !.state = s, !.date = d] :
            s \in OptStates, d \in OptDates}
    \cup {[NoCall EXCEPT !.op = "get_station", !.station = "UG"]}
    \cup {[NoCall EXCEPT !.op = "get_station_variables", !.station = "UG",
                         !.state = s] : s \in OptStates}
    \cup {[NoCall EXCEPT !.op = "get_latest_readings", !.variable_code = 32,
                         !.station_opt = s] : s \in OptStations}
    \cup {[NoCall EXCEPT !.op = "get_readings", !.variable_code = 32,
                         !.year = 2024, !.month = m, !.day = d,
                         !.station_opt = s] :
            m \in months, d \in days, s \in OptStations}
    \cup {[NoCall EXCEPT !.op = o, !.municipality_code = "080193"] :
            o \in MunicipalityOps}
    \cup {[NoCall EXCEPT !.op = o, !.year = 2024, !.month = m, !.day = d] :
            o \in DateOps, m \in months, d \in days}

\* every operation, with the dates over the whole range and beyond it
AllCalls == CallsWith(Months, Days)

\* every operation once, with every argument given
OneOfEach == CallsWith({3}, {7}) \ {c \in CallsWith({3}, {7}) :
    \/ c.op = "get_all_stations" /\ (~Truthy(c.state) \/ ~Truthy(c.date))
    \/ c.op = "get_station_variables" /\ ~Truthy(c.state)
    \/ c.op \in {"get_latest_readings", "get_readings"}
         /\ ~Truthy(c.station_opt)}

\* a few operations with distinct URLs, for the interleavings
FewCalls ==
    {[NoCall EXCEPT !.op = "get_station", !.station = "UG"],
     [NoCall EXCEPT !.op = "get_station", !.station = "CC"],
     [NoCall EXCEPT !.op = "get_readings", !.variable_code = 32, !.year = 2024,
                    !.month = 3, !.day = 7, !.station_opt = Some("UG")],
     [NoCall EXCEPT !.op = "get_uvi_forecast", !.municipality_code = "080193"]}

Arr(items) == <<Punct("[")>> \o items \o <<Punct("]")>>
Obj(items) == <<Punct("{")>> \o items \o <<Punct("}")>>
Member(key, toks) == <<Str(key), Punct(":")>> \o toks
Comma == <<Punct(",")>>

\* bodies that are JSON documents
JsonBodies ==
    {Arr(<<>>),
     Arr(<<Num("1")>> \o Comma \o <<Num("2")>>),
     Arr(<<Num("2")>> \o Comma \o <<Num("1")>>),
     Arr(Obj(Member("codi", <<Str("UG")>>) \o Comma
             \o Member("actiu", <<Lit("true")>>))
         \o Comma \o
         Obj(Member("codi", <<Str("CC")>>) \o Comma
             \o Member("nom", <<Lit("null")>>))),
     Obj(Member("nom", <<Str("Viladecans")>>) \o Comma
         \o Member("codi", <<Str("UG")>>) \o Comma
         \o Member("coords", Arr(<<Num("41")>> \o Comma \o <<Num("2")>>))),
     <<Str("not found")>>}

\* bodies that are not
BadBodies ==
    {<<>>,
     <<Junk("not found")>>,
     <<Punct("["), Num("1")>>,
     <<Punct("["), Num("1"), Punct(","), Punct("]")>>,
     <<Punct("{"), Str("codi"), Str("UG"), Punct("}")>>,
     <<Punct("["), Punct("]"), Punct("]")>>}

Statuses == {200, 201, 204, 301, 404, 500}

AllResponses == [status : Statuses, body : JsonBodies \cup BadBodies]

FewResponses ==
    {[status |-> 200, body |-> Arr(<<Num("1")>> \o Comma \o <<Num("2")>>)],
     [status |-> 200, body |-> <<Junk("not found")>>],
     [status |-> 404, body |-> <<Junk("not found")>>]}

-----------------------------------------------------------------------------
(* The state machine *)

Init ==
    /\ api_key \in Credentials
    /\ client = None
    /\ booted = FALSE
    /\ ctor_raised = None
    /\ stderr = <<>>
    /\ pc = [i \in Slots |-> "idle"]
    /\ call = [i \in Slots |-> NoCall]
    /\ url = [i \in Slots |-> ""]
    /\ transport = [i \in Slots |-> 0]
    /\ response = [i \in Slots |-> NoResponse]
    /\ pending = [i \in Slots |-> NoPending]
    /\ outcome = [i \in Slots |-> NoOutcome]
    /\ gets = [i \in Slots |-> 0]
    /\ wire = {}
    /\ open = {}

\* server.py:11-19, the module body
Startup ==
    /\ ~booted
    /\ booted' = TRUE
    /\ IF ~Truthy(api_key)
       THEN /\ stderr' = Append(stderr,
                 "Error: METEOCAT_API_KEY environment variable is required")
            /\ client' = None
            /\ UNCHANGED ctor_raised
       ELSE /\ client' = MeteocatClient(api_key).obj
            /\ ctor_raised' = MeteocatClient(api_key).raised
            /\ UNCHANGED stderr
    /\ UNCHANGED <<api_key, pc, call, url, transport, response, pending,
                   outcome, gets, wire, open>>

\* meteocat_client.py:11-18, MeteocatClient(api_key) called by a user of the
\* class, with whatever credential it has
Construct ==
    /\ ~booted
    /\ booted' = TRUE
    /\ client' = MeteocatClient(api_key).obj
    /\ ctor_raised' = MeteocatClient(api_key).raised
    /\ UNCHANGED <<api_key, stderr, pc, call, url, transport, response,
                   pending, outcome, gets, wire, open>>

\* the method builds its URL and _request enters "async with"
EnterRequest(i, c) ==
    /\ call' = [call EXCEPT ![i] = c]
    /\ url' = [url EXCEPT ![i] = ToolUrl(c)]
    /\ transport' = [transport EXCEPT ![i] = NewTransport]
    /\ open' = open \cup {NewTransport}
    /\ pc' = [pc EXCEPT ![i] = "opened"]

\* a tool of server.py is invoked with arguments c drawn from calls
ToolCall(i, calls) ==
    /\ booted
    /\ pc[i] = "idle"
    /\ \E c \in calls :
         IF NotConfigured
         THEN /\ call' = [call EXCEPT ![i] = c]
              /\ outcome' = [outcome EXCEPT ![i] = TextResult(ConfigError)]
              /\ pc' = [pc EXCEPT ![i] = "done"]
              /\ UNCHANGED <<url, transport, open>>
         ELSE /\ EnterRequest(i, c)
              /\ UNCHANGED outcome
    /\ UNCHANGED <<api_key, client, booted, ctor_raised, stderr, response,
                   pending, gets, wire>>

\* a method of MeteocatClient is called directly with arguments c drawn
\* from calls
MethodCall(i, calls) ==
    /\ booted
    /\ client # None
    /\ pc[i] = "idle"
    /\ \E c \in calls : EnterRequest(i, c)
    /\ UNCHANGED <<api_key, client, booted, ctor_raised, stderr, response,
                   pending, outcome, gets, wire>>

\* meteocat_client.py:22, client.get(url, headers=self.headers) up to its await
SendGet(i) ==
    /\ pc[i] = "opened"
    /\ wire' = wire \cup {[slot |-> i, url |-> RequestUrl(i),
                           headers |-> RequestHeaders,
                           transport |-> transport[i]]}
    /\ gets' = [gets EXCEPT ![i] = @ + 1]
    /\ pc' = [pc EXCEPT ![i] = "awaiting"]
    /\ UNCHANGED <<api_key, client, booted, ctor_raised, stderr, call, url,
                   transport, response, pending, outcome, open>>

\* the upstream answers the request of invocation i with a response r drawn
\* from responses; lines 24-28 run
Respond(i, responses) ==
    /\ pc[i] = "awaiting"
    /\ \E q \in wire :
         /\ q.slot = i
         /\ wire' = wire \ {q}
    /\ \E r \in responses :
         /\ response' = [response EXCEPT ![i] = r]
         /\ pending' = [pending EXCEPT ![i] = RequestResult(r)]
    /\ pc' = [pc EXCEPT ![i] = "exiting"]
    /\ UNCHANGED <<api_key, client, booted, ctor_raised, stderr, call, url,
                   transport, outcome, gets, open>>

\* the GET of invocation i fails in the transport
NetworkError(i) ==
    /\ pc[i] = "awaiting"
    /\ \E q \in wire :
         /\ q.slot = i
         /\ wire' = wire \ {q}
    /\ pending' = [pending EXCEPT ![i] = NetworkFailure]
    /\ pc' = [pc EXCEPT ![i] = "exiting"]
    /\ UNCHANGED <<api_key, client, booted, ctor_raised, stderr, call, url,
                   transport, response, outcome, gets, open>>

\* mutant: client.aclose() after the return, skipped when _request raises
CloseTransportOnSuccess(i) ==
    /\ open' = IF pending[i].kind = "value" THEN open \ {transport[i]} ELSE open
    /\ transport' = [transport EXCEPT ![i] = 0]

\* "async with" exits: the transport client is closed whatever the outcome
CloseTransport(i) ==
    /\ open' = open \ {transport[i]}
    /\ transport' = [transport EXCEPT ![i] = 0]

\* mutant: the tool calls the client again when it raised
ToolExitRetry(i) ==
    /\ pc[i] = "exiting"
    /\ IF pending[i].kind = "raise"
       THEN /\ pc' = [pc EXCEPT ![i] = "opened"]
            /\ UNCHANGED <<open, transport, outcome>>
       ELSE /\ CloseTransport(i)
            /\ outcome' = [outcome EXCEPT ![i] = ToolResult(pending[i])]
            /\ pc' = [pc EXCEPT ![i] = "done"]
    /\ UNCHANGED <<api_key, client, booted, ctor_raised, stderr, call, url,
                   response, pending, gets, wire>>

\* _request leaves "async with" and the tool returns str(result) or lets
\* the exception through
ToolExit(i) ==
    /\ pc[i] = "exiting"
    /\ CloseTransport(i)
    /\ outcome' = [outcome EXCEPT ![i] = ToolResult(pending[i])]
    /\ pc' = [pc EXCEPT ![i] = "done"]
    /\ UNCHANGED <<api_key, client, booted, ctor_raised, stderr, call, url,
                   response, pending, gets, wire>>

\* _request leaves "async with" and the method returns to its direct caller
MethodExit(i) ==
    /\ pc[i] = "exiting"
    /\ CloseTransport(i)
    /\ outcome' = [outcome EXCEPT ![i] = MethodResult(pending[i])]
    /\ pc' = [pc EXCEPT ![i] = "done"]
    /\ UNCHANGED <<api_key, client, booted, ctor_raised, stderr, call, url,
                   response, pending, gets, wire>>

\* the caller has its outcome; nothing of the invocation is kept
Forget(i) ==
    /\ pc[i] = "done"
    /\ pc' = [pc EXCEPT ![i] = "idle"]
    /\ call' = [call EXCEPT ![i] = NoCall]
    /\ url' = [url EXCEPT ![i] = ""]
    /\ response' = [response EXCEPT ![i] = NoResponse]
    /\ pending' = [pending EXCEPT ![i] = NoPending]
    /\ outcome' = [outcome EXCEPT ![i] = NoOutcome]
    /\ gets' = [gets EXCEPT ![i] = 0]
    /\ UNCHANGED <<api_key, client, booted, ctor_raised, stderr, transport,
                   wire, open>>

\* the server, with concurrent invocations
Next ==
    \/ Startup
    \/ \E i \in Slots :
         \/ ToolCall(i, FewCalls)
         \/ SendGet(i)
         \/ Respond(i, FewResponses)
         \/ NetworkError(i)
         \/ ToolExit(i)
         \/ Forget(i)

Spec == Init /\ [][Next]_vars

\* the server, one invocation after the other, over every operation and
\* every argument
NextArgs ==
    \/ Startup
    \/ ToolCall(1, AllCalls)
    \/ SendGet(1)
    \/ Respond(1, FewResponses)
    \/ NetworkError(1)
    \/ ToolExit(1)
    \/ Forget(1)

SpecArgs == Init /\ [][NextArgs]_vars

\* the server, one invocation after the other, over every response
NextResponses ==
    \/ Startup
    \/ ToolCall(1, OneOfEach)
    \/ SendGet(1)
    \/ Respond(1, AllResponses)
    \/ NetworkError(1)
    \/ ToolExit(1)
    \/ Forget(1)

SpecResponses == Init /\ [][NextResponses]_vars

\* the class MeteocatClient used directly
NextClient ==
    \/ Construct
    \/ MethodCall(1, OneOfEach)
    \/ SendGet(1)
    \/ Respond(1, AllResponses)
    \/ NetworkError(1)
    \/ MethodExit(1)
    \/ Forget(1)

SpecClient == Init /\ [][NextClient]_vars

-----------------------------------------------------------------------------
(* Properties *)

Started(i) == pc[i] \in {"opened", "awaiting", "exiting", "done"}
Answered(i) == pc[i] \in {"exiting", "done"} /\ response[i] # NoResponse
ExpectedHeaders(key) ==
    [h \in {"x-api-key", "Accept"} |->
        IF h = "x-api-key" THEN key ELSE "application/json"]

\* C1: when the credential is missing or empty at process start, every tool
\* invocation, whatever its operation and arguments and whatever came
\* before, ends at once with the fixed configuration message: no URL is
\* built, no transport client is opened and no GET is issued.
C1_NoCredentialNoNetwork ==
    (booted /\ ~Truthy(api_key)) =>
        /\ client = None
        /\ wire = {}
        /\ open = {}
        /\ \A i \in Slots :
             /\ pc[i] \in {"idle", "done"}
             /\ gets[i] = 0
             /\ url[i] = ""
             /\ pc[i] = "done" => outcome[i] = TextResult(ConfigError)

C1_Witness ==
    /\ api_key = Some("")
    /\ pc[1] = "done"
    /\ call[1].op = "get_readings"
    /\ call[1].station_opt = Some("UG")
    /\ outcome[1].text = "Error: Server not configured (missing API key)"

Query1(n1, v1, Sup(_)) == IF Sup(v1) THEN "?" \o n1 \o "=" \o v1[1] ELSE ""
Query2(n1, v1, n2, v2, Sup(_)) ==
    IF Sup(v1) /\ Sup(v2)
    THEN "?" \o n1 \o "=" \o v1[1] \o "&" \o n2 \o "=" \o v2[1]
    ELSE IF Sup(v1) THEN Query1(n1, v1, Sup)
    ELSE Query1(n2, v2, Sup)

QueryUrlOk(i, Sup(_)) ==
    LET c == call[i] IN
    /\ c.op = "get_all_stations" =>
         url[i] = "https://api.meteo.cat/xema/v1/estacions/metadades"
                    \o Query2("estat", c.state, "data", c.date, Sup)
    /\ c.op = "get_station_variables" =>
         url[i] = "https://api.meteo.cat/xema/v1/estacions/" \o c.station
                    \o "/variables/metadades" \o Query1("estat", c.state, Sup)
    /\ (c.op = "get_latest_readings" /\ c.variable_code = 32) =>
         url[i] = "https://api.meteo.cat/xema/v1/variables/mesurades/32/ultimes"
                    \o Query1("codiEstacio", c.station_opt, Sup)
    /\ c.op = "get_readings" =>
         url[i] = ReadingsUrl(c.variable_code, c.year, c.month, c.day, None)
                    \o Query1("codiEstacio", c.station_opt, Sup)

WasSupplied(o) == o # None
SuppliedNonEmpty(o) == o # None /\ o[1] # ""

TwoDigits(n) == DigitChar[(n \div 10) + 1] \o DigitChar[(n % 10) + 1]

\* what an integer outside 0..99 looks like in the path: its plain decimal
\* form
Forwarded(n) == IF n \in 0..99 THEN TwoDigits(n) ELSE IntToStr(n)

DatePathOk(i, Seg(_)) ==
    LET c == call[i]
        date == "/2024/" \o Seg(c.month) \o "/" \o Seg(c.day)
    IN
    /\ (c.op = "get_readings" /\ c.variable_code = 32 /\ c.year = 2024) =>
         url[i] = "https://api.meteo.cat/xema/v1/variables/mesurades/32"
                    \o date
                    \o Query1("codiEstacio", c.station_opt, SuppliedNonEmpty)
    /\ (c.op = "get_general_forecast" /\ c.year = 2024) =>
         url[i] = "https://api.meteo.cat/pronostic/v1/catalunya" \o date
    /\ (c.op = "get_regional_forecast" /\ c.year = 2024) =>
         url[i] = "https://api.meteo.cat/pronostic/v1/comarcal" \o date

\* C4: in the three date operations a month in 1..12 and a day in 1..31 are
\* each two decimal digits in the path, in the order year/month/day; a value
\* out of range is not rejected: the request is made with the value in the
\* path.
C4_DatePadded ==
    \A i \in Slots :
        (Started(i) /\ client # None /\ call[i].op \in DateOps \cup {"get_readings"}) =>
            /\ (call[i].month \in 1..12 /\ call[i].day \in 1..31) =>
                 /\ Len(Format02d(call[i].month)) = 2
                 /\ Len(Format02d(call[i].day)) = 2
                 /\ DatePathOk(i, TwoDigits)
            /\ DatePathOk(i, Forwarded)

C4_Witness ==
    /\ pc[1] = "awaiting"
    /\ call[1].op = "get_readings"
    /\ call[1].month = 3
    /\ call[1].day = 7
    /\ \E q \in wire :
         q.url = "https://api.meteo.cat/xema/v1/variables/mesurades/32/2024/03/07?codiEstacio=UG"

\* C5: with a configured client an invocation issues exactly one GET: none
\* before the request is sent, one from then on, and still one when it has
\* ended, whether with a result or with an error.
C5_ExactlyOneGet ==
    client # None =>
        \A i \in Slots :
            /\ pc[i] \in {"idle", "opened"} => gets[i] = 0
            /\ pc[i] \in {"awaiting", "exiting", "done"} => gets[i] = 1
            /\ Cardinality({q \in wire : q.slot = i}) =
                   (IF pc[i] = "awaiting" THEN 1 ELSE 0)

C5_Witness ==
    /\ pc[1] = "done"
    /\ outcome[1].kind = "error"
    /\ gets[1] = 1
    /\ pc[2] = "done"
    /\ outcome[2].kind = "text"
    /\ gets[2] = 1

FewUrl(c) ==
    CASE c.op = "get_station" ->
            "https://api.meteo.cat/xema/v1/estacions/" \o c.station \o "/metadades"
      [] c.op = "get_readings" ->
            "https://api.meteo.cat/xema/v1/variables/mesurades/32/2024/03/07?codiEstacio=UG"
      [] c.op = "get_uvi_forecast" ->
            "https://api.meteo.cat/pronostic/v1/uvi/080193"

\* C6: under every interleaving, a request in flight has the URL of its own
\* invocation's operation and arguments, the two headers fixed at
\* construction and its own transport client; an invocation that has ended
\* holds the outcome of the response it was itself given; the client object
\* is the one built from the credential.
C6_NoCrossTalk ==
    (booted /\ client # None) =>
        /\ client = Some([api_key |-> api_key[1],
                          headers |-> ExpectedHeaders(api_key[1])])
        /\ \A q \in wire :
             /\ pc[q.slot] = "awaiting"
             /\ q.url = FewUrl(call[q.slot])
             /\ q.headers = ExpectedHeaders(api_key[1])
             /\ q.transport = transport[q.slot]
        /\ \A i \in Slots :
             /\ Started(i) => url[i] = FewUrl(call[i])
             /\ (pc[i] = "done" /\ response[i] # NoResponse) =>
                    outcome[i] = ToolResult(RequestResult(response[i]))
             /\ (pc[i] = "done" /\ response[i] = NoResponse) =>
                    outcome[i] = ErrorResult(NetworkFailure.err)

C6_Witness ==
    /\ Cardinality(wire) = 2
    /\ \E q1 \in wire, q2 \in wire :
         /\ q1.slot = 1 /\ q2.slot = 2
         /\ q1.url = "https://api.meteo.cat/xema/v1/estacions/UG/metadades"
         /\ q2.url = "https://api.meteo.cat/pronostic/v1/uvi/080193"
         /\ q1.headers = q2.headers

\* C7: an invocation that has ended has a text result or an error, never
\* both and nothing else; a bad status, a body that is not JSON on status
\* 200 and a network error each end it with that error, not with a text.
C7_TwoOutcomes ==
    \A i \in Slots :
        /\ pc[i] # "done" => outcome[i] = NoOutcome
        /\ pc[i] = "done" =>
             /\ outcome[i].kind \in {"text", "error"}
             /\ outcome[i].kind = "text" =>
                    (outcome[i].err = NoErr /\ outcome[i].val = PyNone)
             /\ outcome[i].kind = "error" =>
                    (outcome[i].text = "" /\ outcome[i].err # NoErr)
             /\ (client # None /\ response[i] = NoResponse) =>
                    outcome[i] = ErrorResult([type |-> "RequestError", msg |-> ""])
             /\ (response[i] # NoResponse /\ response[i].status # 200) =>
                    (outcome[i].kind = "error" /\ outcome[i].err.type = "Exception")
             /\ (response[i].status = 200 /\ response[i].body \in BadBodies) =>
                    outcome[i] = ErrorResult([type |-> "JSONDecodeError", msg |-> ""])
             /\ (response[i].status = 200 /\ response[i].body \in JsonBodies) =>
                    outcome[i].kind = "text"

C7_Witness ==
    /\ pc[1] = "done"
    /\ response[1] = [status |-> 200, body |-> <<Junk("not found")>>]
    /\ outcome[1].kind = "error"
    /\ outcome[1].err.type = "JSONDecodeError"

ConstructedRight ==
    booted =>
        IF api_key = None \/ api_key = Some("")
        THEN /\ client = None
             /\ ctor_raised = Some("ValueError: METEOCAT_API_KEY is required")
             /\ wire = {}
             /\ open = {}
             /\ \A i \in Slots : pc[i] = "idle" /\ gets[i] = 0
        ELSE /\ ctor_raised = None
             /\ client = Some([api_key |-> api_key[1],
                               headers |-> ExpectedHeaders(api_key[1])])

\* C8: constructing the client with an absent or empty credential raises
\* the configuration error, leaves no client object and no request is ever
\* made; with a non-empty credential it yields an object holding that
\* credential and the two headers, and no later step changes the object.
C8_Construction ==
    /\ []ConstructedRight
    /\ [][booted => client' = client]_vars

C8_Witness ==
    /\ booted
    /\ api_key = Some("")
    /\ client = None
    /\ ctor_raised # None

\* what the client returns and what the tool returns for each JSON body
JsonCases ==
    {[body |-> Arr(<<>>), val |-> PyList(<<>>), text |-> "[]"],
     [body |-> Arr(<<Num("1")>> \o Comma \o <<Num("2")>>),
      val |-> PyList(<<PyInt("1"), PyInt("2")>>), text |-> "[1, 2]"],
     [body |-> Arr(<<Num("2")>> \o Comma \o <<Num("1")>>),
      val |-> PyList(<<PyInt("2"), PyInt("1")>>), text |-> "[2, 1]"],
     [body |-> <<Punct("["),
                 Punct("{"), Str("codi"), Punct(":"), Str("UG"), Punct(","),
                 Str("actiu"), Punct(":"), Lit("true"), Punct("}"),
                 Punct(","),
                 Punct("{"), Str("codi"), Punct(":"), Str("CC"), Punct(","),
                 Str("nom"), Punct(":"), Lit("null"), Punct("}"),
                 Punct("]")>>,
      val |-> PyList(<<PyDict(<<<<"codi", PyStr("UG")>>, <<"actiu", PyTrue>>>>),
                       PyDict(<<<<"codi", PyStr("CC")>>, <<"nom", PyNone>>>>)>>),
      text |-> "[{'codi': 'UG', 'actiu': True}, {'codi': 'CC', 'nom': None}]"],
     [body |-> <<Punct("{"), Str("nom"), Punct(":"), Str("Viladecans"),
                 Punct(","), Str("codi"), Punct(":"), Str("UG"), Punct(","),
                 Str("coords"), Punct(":"), Punct("["), Num("41"), Punct(","),
                 Num("2"), Punct("]"), Punct("}")>>,
      val |-> PyDict(<<<<"nom", PyStr("Viladecans")>>, <<"codi", PyStr("UG")>>,
                       <<"coords", PyList(<<PyInt("41"), PyInt("2")>>)>>>>),
      text |-> "{'nom': 'Viladecans', 'codi': 'UG', 'coords': [41, 2]}"],
     [body |-> <<Str("not found")>>, val |-> PyStr("not found"),
      text |-> "not found"]}

\* C9: on status 200 with a JSON body the client returns the value the body
\* denotes, elements and members in the order of the body, none added,
\* renamed or left out, and the tool returns the text of that value; this
\* holds after any earlier invocations.
C9_PassThrough ==
    /\ {k.body : k \in JsonCases} = JsonBodies
    /\ \A i \in Slots :
         (Answered(i) /\ response[i].status = 200) =>
             \A k \in JsonCases :
                 response[i].body = k.body =>
                     /\ pending[i] = Returns(k.val)
                     /\ pc[i] = "done" => outcome[i] = TextResult(k.text)

C9_Witness ==
    /\ pc[1] = "done"
    /\ response[1].status = 200
    /\ outcome[1].text = "[{'codi': 'UG', 'actiu': True}, {'codi': 'CC', 'nom': None}]"

\* C10: an invocation holds a transport client exactly from the start of
\* its request to the end of it; no two invocations hold the same one; the
\* open transport clients are exactly those held; so an invocation that has
\* ended, with a result or with any error, has left none open.
C10_TransportClosed ==
    /\ \A i \in Slots :
         /\ pc[i] \in {"idle", "done"} => transport[i] = 0
         /\ pc[i] \in {"opened", "awaiting", "exiting"} => transport[i] \in open
    /\ \A i \in Slots, j \in Slots :
         (i # j /\ transport[i] # 0) => transport[i] # transport[j]
    /\ open = {transport[i] : i \in Slots} \ {0}
    /\ \A q \in wire : q.transport = transport[q.slot] /\ q.transport \in open

C10_Witness ==
    /\ pc[1] = "done"
    /\ outcome[1].kind = "error"
    /\ outcome[1].err.type = "RequestError"
    /\ pc[2] = "exiting"
    /\ open = {transport[2]}

====
